---------------------------- MODULE Spec2Model ----------------------------
(***************************************************************************)
(* A model of gotestdox's Prettify (src/prettifier.go, lines 1-202): the   *)
(* scanner that turns a Go test name into a sentence.  A rune is modelled  *)
(* as a string naming it, a Go string as a sequence of runes.  The cursor  *)
(* fields start and pos keep Go's 0-based values, so the Go expression     *)
(* p.input[i] is input[i + 1] here and p.input[s:p] is SubSeq(input,       *)
(* s + 1, p).  One action is one iteration of the loop of a state          *)
(* function (betweenWords, inWord), from its p.next() to the end of the    *)
(* switch case that the rune selects.                                      *)
(***************************************************************************)
EXTENDS Naturals, Integers, Sequences, FiniteSets, TLC

\* The prettifier of the call of Prettify that is running (raw is the
\* argument of the call, result what it returns, emits the history of its
\* calls of emit), its p.debug and the lines written to DebugWriter.
VARIABLES raw, input, start, pos, words, inSubTest, seenUnderscore, state,
          result, emits, debug, out

\* The other calls of Prettify of a program that makes several.
VARIABLES calls

\* Filter: the lines its scanner has still to read, its locals, the lines
\* written to its output, the place it is at, and the history of the lines
\* it has read.
VARIABLES scanner, allOK, curPkg, event, output, pc, consumed

prettifierVars == <<raw, input, start, pos, words, inSubTest, seenUnderscore,
                    state, result, emits>>

filterVars == <<scanner, allOK, curPkg, event, output, pc, consumed>>

\* The program: the place main is at, whether its standard input is a
\* terminal, which call on the go test command returns an error, the allOK
\* of main and the exit status of the process.
VARIABLES main

vars == <<prettifierVars, debug, out, calls, filterVars, main>>

(***************************************************************************)
(* Bounds of the model.                                                    *)
(***************************************************************************)
\* Longest test-name body (the runes after the optional "Test" prefix) drawn
\* from the whole alphabet.
MaxLen == 3

\* Longest test-name body drawn from the letters, the digit, the hyphen and
\* the separators only: long enough for a word, an initialism and a word.
MaxCamelLen == 5

(***************************************************************************)
(* Runes.                                                                  *)
(***************************************************************************)
\* const eof rune = 0: the rune U+0000, which next() also returns at the
\* end of the input.
eof == "NUL"

\* The runes test names are drawn from: an ASCII letter in both cases, an
\* uppercase letter outside ASCII (U+00C9, capital E acute, two bytes in
\* UTF-8; its lowercase is U+00E9), a digit, the two
\* separators, the runes the scanner compares with (- and =), an apostrophe
\* (a rune no case of the scanner names) and U+0000.
Alphabet == {"A", "a", "U+00C9", "1", "_", "/", "-", "=", "'", eof}

\* The runes of the longer test names.
CamelAlphabet == {"A", "a", "1", "-", "_", "/"}

\* The prefix Prettify trims.
TestPrefix == <<"T", "e", "s", "t">>

\* unicode.IsUpper, unicode.IsLower, unicode.IsDigit on the runes of the model.
UpperRunes == {"A", "U+00C9", "U+01C4", "T", "E", "S"}
LowerRunes == {"a", "U+00E9", "U+01C6", "t", "e", "s"}
DigitRunes == {"1"}

IsUpper(r) == r \in UpperRunes
IsLower(r) == r \in LowerRunes
IsDigit(r) == r \in DigitRunes

\* unicode.ToLower and unicode.ToTitle on one rune.  The uppercase letter
\* U+01C4 (the digraph DZ with caron) has the lowercase U+01C6 and the title
\* case U+01C5, a letter that is neither uppercase nor lowercase.
RuneToLower(r) ==
    CASE r = "A" -> "a"
      [] r = "U+00C9" -> "U+00E9"
      [] r = "U+01C4" -> "U+01C6"
      [] r = "U+01C5" -> "U+01C6"
      [] r = "T" -> "t"
      [] r = "E" -> "e"
      [] r = "S" -> "s"
      [] OTHER   -> r

RuneToTitle(r) ==
    CASE r = "a" -> "A"
      [] r = "U+00E9" -> "U+00C9"
      [] r = "U+01C4" -> "U+01C5"
      [] r = "U+01C6" -> "U+01C5"
      [] r = "t" -> "T"
      [] r = "e" -> "E"
      [] r = "s" -> "S"
      [] OTHER   -> r

\* The number of bytes of the UTF-8 encoding of a rune: Go's len() of a
\* string counts bytes, not runes.
RuneLen(r) ==
    IF r \in {"U+00C9", "U+00E9", "U+01C4", "U+01C5", "U+01C6"} THEN 2 ELSE 1

\* strings.isSeparator, which strings.Title uses to find the start of a word:
\* ASCII letters, digits and underscore are not separators, every other ASCII
\* rune is; outside ASCII letters and digits are not separators.
isSeparator(r) ==
    IF RuneLen(r) = 1
    THEN ~(IsUpper(r) \/ IsLower(r) \/ IsDigit(r) \/ r = "_")
    ELSE FALSE

(***************************************************************************)
(* Strings.                                                                *)
(***************************************************************************)
\* len(word) for a Go string: its length in bytes.
RECURSIVE ByteLen(_)
ByteLen(w) == IF w = <<>> THEN 0 ELSE RuneLen(Head(w)) + ByteLen(Tail(w))

\* strings.ToLower.
ToLower(w) == [i \in 1..Len(w) |-> RuneToLower(w[i])]

\* strings.Title: the title case of every rune that begins a word, a word
\* beginning at the start of the string and after every separator.
Title(w) ==
    [i \in 1..Len(w) |->
        IF i = 1 \/ isSeparator(w[i - 1]) THEN RuneToTitle(w[i]) ELSE w[i]]

\* strings.TrimPrefix.
HasPrefix(s, prefix) ==
    /\ Len(s) >= Len(prefix)
    /\ SubSeq(s, 1, Len(prefix)) = prefix

RECURSIVE TrimPrefixRepeatedly(_, _)
\* A TrimPrefix that strips the prefix as often as it finds it.
TrimPrefixRepeatedly(s, prefix) ==
    IF prefix # <<>> /\ HasPrefix(s, prefix)
    THEN TrimPrefixRepeatedly(SubSeq(s, Len(prefix) + 1, Len(s)), prefix)
    ELSE s

TrimPrefix(s, prefix) ==
    IF HasPrefix(s, prefix) THEN SubSeq(s, Len(prefix) + 1, Len(s)) ELSE s

\* strings.Join(p.words, " ").
RECURSIVE Join(_)
Join(ws) ==
    IF ws = <<>> THEN <<>>
    ELSE IF Len(ws) = 1 THEN ws[1]
    ELSE ws[1] \o <<" ">> \o Join(Tail(ws))

(***************************************************************************)
(* The prettifier's helpers, as functions of the cursor.                   *)
(***************************************************************************)
\* A slice expression p.input[s:p] is in range.
SliceOK(s, p) == 0 <= s /\ s <= p /\ p <= Len(input)

\* p.next(): the rune it returns.
nextRune(p) == IF p >= Len(input) THEN eof ELSE input[p + 1]

\* A next() that advances without looking for the end of the input.
nextPosUnchecked(p) == p + 1

\* p.next(): the position it leaves.
nextPos(p) == IF p >= Len(input) THEN p ELSE p + 1

\* p.backup().
backup(p) == p - 1

\* p.prev(), for a position where p.input[p-1] exists.
prev(p) == input[p]

\* p.prev() indexes inside the input.
PrevOK(p) == p >= 1 /\ p <= Len(input)

\* p.inInitialism(): no rune of the pending span is lowercase.
inInitialism(s, p) == \A i \in (s + 1)..p : ~IsLower(input[i])

\* An emit() that forgets the capital of the first word.
emitWordNoTitle(ws, s, p) ==
    LET word == SubSeq(input, s + 1, p)
    IN  IF ByteLen(word) = 1 THEN ToLower(word)
        ELSE IF ~inInitialism(s, p) THEN ToLower(word)
        ELSE word

\* An emit() that lowercases every word but the first, initialisms included.
emitWordLowerAll(ws, s, p) ==
    LET word == SubSeq(input, s + 1, p)
    IN  IF Len(ws) = 0 THEN Title(word) ELSE ToLower(word)

\* The word p.emit() appends for the span input[s:p] when the word sequence
\* is ws.
emitWord(ws, s, p) ==
    LET word == SubSeq(input, s + 1, p)
    IN  IF Len(ws) = 0 THEN Title(word)
        ELSE IF ByteLen(word) = 1 THEN ToLower(word)
        ELSE IF ~inInitialism(s, p) THEN ToLower(word)
        ELSE word

\* p.words after p.emit().
emit(ws, s, p) == Append(ws, emitWord(ws, s, p))

\* p.words after p.multiWordFunction().
RECURSIVE TitleConcat(_)
TitleConcat(ws) ==
    IF ws = <<>> THEN <<>> ELSE Title(Head(ws)) \o TitleConcat(Tail(ws))

multiWordFunction(ws) == <<TitleConcat(ws)>>

\* A betweenWords that skips underscores only.
betweenWordsCaseUnderscoreOnly(r) ==
    CASE r = eof   -> "eof"
      [] r = "_"   -> "skip"
      [] OTHER     -> "word"

\* A betweenWords that skips an apostrophe as it skips a separator.
betweenWordsCaseSkipsQuote(r) ==
    CASE r = eof                -> "eof"
      [] r \in {"_", "/", "'"}  -> "skip"
      [] OTHER                  -> "word"

\* The case of betweenWords' switch that the rune r selects.
betweenWordsCase(r) ==
    CASE r = eof            -> "eof"
      [] r \in {"_", "/"}   -> "skip"
      [] OTHER              -> "word"

\* The case of inWord's switch that the rune r selects: the first one, in
\* the order of the source, whose condition holds.
inWordCase(r) ==
    CASE r = eof     -> "eof"
      [] r = "_"     -> "underscore"
      [] r = "/"     -> "slash"
      [] IsUpper(r)  -> "upper"
      [] IsDigit(r)  -> "digit"
      [] OTHER       -> "default"

\* An uppercase case that breaks after an initialism instead of after a word.
upperBreaksAfterInitialism(s, p) == prev(p) # "-" /\ inInitialism(s, p)

\* An uppercase case that does not look at the rune before.
upperBreaksAfterHyphen(s, p) == ~inInitialism(s, p)

\* inWord, uppercase case: the rune ends the pending word input[s:p].
upperBreaks(s, p) == prev(p) # "-" /\ ~inInitialism(s, p)

\* A digit case that breaks after an initialism only.
digitBreaksAfterInitialism(s, p) ==
    /\ ~IsDigit(prev(p))
    /\ prev(p) # "-"
    /\ prev(p) # "="
    /\ inInitialism(s, p)

\* inWord, digit case: the rune ends the pending word input[s:p].
digitBreaks(s, p) ==
    /\ ~IsDigit(prev(p))
    /\ prev(p) # "-"
    /\ prev(p) # "="
    /\ ~inInitialism(s, p)

\* A default case that backtracks whether or not the span is an initialism.
defaultBacktracksAnySpan(s, p) == (p - s) > 1

\* A default case that backtracks from an initialism of one rune too.
defaultBacktracksFromOneRune(s, p) == inInitialism(s, p) /\ (p - s) >= 1

\* A default case that backtracks whatever the length of the initialism.
defaultBacktracksAnyLength(s, p) == inInitialism(s, p)

\* inWord, default case: the pending word input[s:p] is an initialism whose
\* last rune begins the next word.
defaultBacktracks(s, p) == inInitialism(s, p) /\ (p - s) > 1

\* A hint that fires whether or not it has fired before.
hintFiresAgain(seen, sub) == ~sub

\* A hint that fires in a subtest name too.
hintFiresInSubTest(seen, sub) == ~seen

\* inWord, underscore case: the underscore is the multiword-function hint,
\* given p.seenUnderscore and p.inSubTest.
hintFires(seen, sub) == ~seen /\ ~sub

\* The entry emit() adds to the history of emitted spans: the span, the word
\* appended, the number of words before it, the case of inWord that called
\* emit() and whether multiWordFunction() was called right after it.
EmitRecord(ws, s, p, by) ==
    [from |-> s, to |-> p, word |-> emitWord(ws, s, p), nth |-> Len(ws),
     by |-> by, merged |-> FALSE]

\* The entry of an emit() that multiWordFunction() follows.
MergeRecord(ws, s, p) ==
    [EmitRecord(ws, s, p, "underscore") EXCEPT !.merged = TRUE]

(***************************************************************************)
(* Initial state: the prettifier value Prettify builds for its argument.   *)
(***************************************************************************)
RECURSIVE SeqsUpTo(_, _)
SeqsUpTo(alphabet, n) ==
    IF n = 0 THEN {<<>>}
    ELSE LET shorter == SeqsUpTo(alphabet, n - 1)
         IN  shorter \cup
             {Append(s, c) : s \in {t \in shorter : Len(t) = n - 1},
                             c \in alphabet}

\* The arguments of Prettify: a short body of any runes, with and without
\* the prefix, and a longer body of letters, digits, hyphens and separators
\* with the prefix.
Prefixes == {<<>>, TestPrefix}

RawInputs ==
    {pre \o body : pre \in Prefixes, body \in SeqsUpTo(Alphabet, MaxLen)}
    \cup {TestPrefix \o body : body \in SeqsUpTo(CamelAlphabet, MaxCamelLen)}

\* No other call of Prettify is in progress.
NoCalls == [phase |-> "single"]

\* The zero value of Event.  Action and Package are strings that are only
\* compared, Test is a sequence of runes; Elapsed, which is only printed,
\* is left out.
NoEvent == [Action |-> "", Package |-> "", Test |-> <<>>]

\* main is not running: a program that only calls into the package.
NoMain ==
    [pc |-> "none", tty |-> FALSE, err |-> "none", allOK |-> TRUE,
     status |-> -1]

\* Filter is not running.
NoFilter ==
    /\ scanner = <<>>
    /\ allOK = TRUE
    /\ curPkg = ""
    /\ event = NoEvent
    /\ output = <<>>
    /\ pc = "none"
    /\ consumed = <<>>

Init ==
    /\ raw \in RawInputs
    /\ input = TrimPrefix(raw, TestPrefix)
    /\ start = 0
    /\ pos = 0
    /\ words = <<>>
    /\ inSubTest = FALSE
    /\ seenUnderscore = FALSE
    /\ state = "betweenWords"
    /\ result = <<>>
    /\ emits = <<>>
    /\ debug = "discard"
    /\ out = 0
    /\ calls = NoCalls
    /\ NoFilter
    /\ main = NoMain

\* p.log, called n times in a step: the lines go to p.debug, which is
\* io.Discard unless GOTESTDOX_DEBUG is set, and nothing else changes.
log(n) ==
    /\ out' = IF debug = "writer" THEN out + n ELSE out
    /\ UNCHANGED <<debug, calls, filterVars, main>>

\* An index or slice expression out of range: the Go runtime panics.
Panic ==
    /\ state' = "panic"
    /\ log(0)
    /\ UNCHANGED <<raw, input, start, pos, words, inSubTest, seenUnderscore,
                   result, emits>>

(***************************************************************************)
(* betweenWords.                                                           *)
(***************************************************************************)
BetweenWordsEOF ==
    /\ state = "betweenWords"
    /\ betweenWordsCase(nextRune(pos)) = "eof"
    /\ IF ~SliceOK(start, pos) THEN Panic
       ELSE /\ pos' = nextPos(pos)
            /\ state' = "nil"
            /\ log(1)
            /\ UNCHANGED <<raw, input, start, words, inSubTest,
                           seenUnderscore, result, emits>>

BetweenWordsSkip ==
    /\ state = "betweenWords"
    /\ betweenWordsCase(nextRune(pos)) = "skip"
    /\ IF ~SliceOK(start, pos) THEN Panic
       ELSE /\ pos' = nextPos(pos)
            /\ start' = nextPos(pos)
            /\ log(1)
            /\ UNCHANGED <<raw, input, words, inSubTest, seenUnderscore,
                           state, result, emits>>

BetweenWordsWord ==
    /\ state = "betweenWords"
    /\ betweenWordsCase(nextRune(pos)) = "word"
    /\ IF ~SliceOK(start, pos) THEN Panic
       ELSE /\ pos' = nextPos(pos)
            /\ state' = "inWord"
            /\ log(1)
            /\ UNCHANGED <<raw, input, start, words, inSubTest,
                           seenUnderscore, result, emits>>

(***************************************************************************)
(* inWord.                                                                 *)
(***************************************************************************)
\* An end of input that does not emit the pending word.
InWordEOFNoFlush ==
    /\ state = "inWord"
    /\ inWordCase(nextRune(pos)) = "eof"
    /\ LET p == nextPos(pos)
       IN  IF ~SliceOK(start, pos) \/ ~SliceOK(start, p) THEN Panic
           ELSE /\ pos' = p
                /\ start' = p
                /\ state' = "nil"
                /\ log(1)
                /\ UNCHANGED <<raw, input, words, emits, inSubTest,
                               seenUnderscore, result>>

InWordEOF ==
    /\ state = "inWord"
    /\ inWordCase(nextRune(pos)) = "eof"
    /\ LET p == nextPos(pos)
       IN  IF ~SliceOK(start, pos) \/ ~SliceOK(start, p) THEN Panic
           ELSE /\ pos' = p
                /\ words' = emit(words, start, p)
                /\ emits' = Append(emits, EmitRecord(words, start, p, "eof"))
                /\ start' = p
                /\ state' = "nil"
                /\ log(2)
                /\ UNCHANGED <<raw, input, inSubTest, seenUnderscore, result>>

InWordUnderscore ==
    /\ state = "inWord"
    /\ inWordCase(nextRune(pos)) = "underscore"
    /\ LET p == backup(nextPos(pos))
       IN  IF ~SliceOK(start, pos) \/ ~SliceOK(start, p) THEN Panic
           ELSE /\ pos' = p
                /\ start' = p
                /\ IF hintFires(seenUnderscore, inSubTest)
                   THEN /\ words' = multiWordFunction(emit(words, start, p))
                        /\ emits' = Append(emits, MergeRecord(words, start, p))
                        /\ seenUnderscore' = TRUE
                   ELSE /\ words' = emit(words, start, p)
                        /\ emits' = Append(emits,
                               EmitRecord(words, start, p, "underscore"))
                        /\ UNCHANGED seenUnderscore
                /\ state' = "betweenWords"
                /\ log(IF hintFires(seenUnderscore, inSubTest) THEN 3 ELSE 2)
                /\ UNCHANGED <<raw, input, inSubTest, result>>

\* The slash case without its backup(): the slash stays in the emitted span.
InWordSlashNoBackup ==
    /\ state = "inWord"
    /\ inWordCase(nextRune(pos)) = "slash"
    /\ LET p == nextPos(pos)
       IN  IF ~SliceOK(start, pos) \/ ~SliceOK(start, p) THEN Panic
           ELSE /\ pos' = p
                /\ start' = p
                /\ words' = emit(words, start, p)
                /\ emits' = Append(emits, EmitRecord(words, start, p, "slash"))
                /\ inSubTest' = TRUE
                /\ state' = "betweenWords"
                /\ log(2)
                /\ UNCHANGED <<raw, input, seenUnderscore, result>>

InWordSlash ==
    /\ state = "inWord"
    /\ inWordCase(nextRune(pos)) = "slash"
    /\ LET p == backup(nextPos(pos))
       IN  IF ~SliceOK(start, pos) \/ ~SliceOK(start, p) THEN Panic
           ELSE /\ pos' = p
                /\ start' = p
                /\ words' = emit(words, start, p)
                /\ emits' = Append(emits, EmitRecord(words, start, p, "slash"))
                /\ inSubTest' = TRUE
                /\ state' = "betweenWords"
                /\ log(2)
                /\ UNCHANGED <<raw, input, seenUnderscore, result>>

InWordUpper ==
    /\ state = "inWord"
    /\ inWordCase(nextRune(pos)) = "upper"
    /\ LET p == backup(nextPos(pos))
       IN  IF ~SliceOK(start, pos) \/ ~PrevOK(p) \/ ~SliceOK(start, p)
           THEN Panic
           ELSE IF upperBreaks(start, p)
           THEN /\ pos' = p
                /\ start' = p
                /\ words' = emit(words, start, p)
                /\ emits' = Append(emits, EmitRecord(words, start, p, "upper"))
                /\ state' = "betweenWords"
                /\ log(2)
                /\ UNCHANGED <<raw, input, inSubTest, seenUnderscore, result>>
           ELSE /\ pos' = nextPos(p)
                /\ log(1)
                /\ UNCHANGED <<raw, input, start, words, inSubTest,
                               seenUnderscore, state, result, emits>>

InWordDigit ==
    /\ state = "inWord"
    /\ inWordCase(nextRune(pos)) = "digit"
    /\ LET p == backup(nextPos(pos))
       IN  IF ~SliceOK(start, pos) \/ ~PrevOK(p) \/ ~SliceOK(start, p)
           THEN Panic
           ELSE IF digitBreaks(start, p)
           THEN /\ pos' = nextPos(p)
                /\ start' = p
                /\ words' = emit(words, start, p)
                /\ emits' = Append(emits, EmitRecord(words, start, p, "digit"))
                /\ log(2)
                /\ UNCHANGED <<raw, input, inSubTest, seenUnderscore, state,
                               result>>
           ELSE /\ pos' = nextPos(p)
                /\ log(1)
                /\ UNCHANGED <<raw, input, start, words, inSubTest,
                               seenUnderscore, state, result, emits>>

\* The default case without its second backup(): the whole run is emitted.
InWordDefaultOneBackup ==
    /\ state = "inWord"
    /\ inWordCase(nextRune(pos)) = "default"
    /\ LET p == backup(nextPos(pos))
           q == p
       IN  IF ~SliceOK(start, pos) \/ ~SliceOK(start, p) THEN Panic
           ELSE IF defaultBacktracks(start, p)
           THEN IF ~SliceOK(start, q) THEN Panic
                ELSE /\ pos' = q
                     /\ start' = q
                     /\ words' = emit(words, start, q)
                     /\ emits' = Append(emits, EmitRecord(words, start, q, "default"))
                     /\ log(2)
                     /\ UNCHANGED <<raw, input, inSubTest, seenUnderscore,
                                    state, result>>
           ELSE /\ pos' = nextPos(p)
                /\ log(1)
                /\ UNCHANGED <<raw, input, start, words, inSubTest,
                               seenUnderscore, state, result, emits>>

InWordDefault ==
    /\ state = "inWord"
    /\ inWordCase(nextRune(pos)) = "default"
    /\ LET p == backup(nextPos(pos))
           q == backup(p)
       IN  IF ~SliceOK(start, pos) \/ ~SliceOK(start, p) THEN Panic
           ELSE IF defaultBacktracks(start, p)
           THEN IF ~SliceOK(start, q) THEN Panic
                ELSE /\ pos' = q
                     /\ start' = q
                     /\ words' = emit(words, start, q)
                     /\ emits' = Append(emits, EmitRecord(words, start, q, "default"))
                     /\ log(2)
                     /\ UNCHANGED <<raw, input, inSubTest, seenUnderscore,
                                    state, result>>
           ELSE /\ pos' = nextPos(p)
                /\ log(1)
                /\ UNCHANGED <<raw, input, start, words, inSubTest,
                               seenUnderscore, state, result, emits>>

(***************************************************************************)
(* Prettify: the state function returned nil, the words are joined.        *)
(***************************************************************************)
Return ==
    /\ state = "nil"
    /\ result' = Join(words)
    /\ state' = "returned"
    /\ log(1)
    /\ UNCHANGED <<raw, input, start, pos, words, inSubTest, seenUnderscore,
                   emits>>

Next ==
    \/ BetweenWordsEOF
    \/ BetweenWordsSkip
    \/ BetweenWordsWord
    \/ InWordEOF
    \/ InWordUnderscore
    \/ InWordSlash
    \/ InWordUpper
    \/ InWordDigit
    \/ InWordDefault
    \/ Return

Spec == Init /\ [][Next]_vars

\* The calls of Prettify on the names 'go test -json' can report: it writes
\* an unprintable rune as its Go escape sequence, so a name holds no U+0000.
InitNames == Init /\ \A i \in 1..Len(raw) : raw[i] # eof

SpecNames == InitNames /\ [][Next]_vars

(***************************************************************************)
(* The scanner that reads with peek(): the same prettifier, emit() and     *)
(* multiWordFunction(), a next() that is peek() followed by p.pos++, and   *)
(* an inWord that looks at the next rune without consuming it.  Prettify   *)
(* is a function of its argument, so this scanner is written as the        *)
(* function it computes: peekStep is one round of the loop of betweenWords *)
(* or inWord on the prettifier q, peekRun runs the state functions until   *)
(* one returns nil.                                                        *)
(***************************************************************************)
\* p.peek().
peek(p) == IF p >= Len(input) THEN eof ELSE input[p + 1]

\* The prettifier Prettify builds.
peekPrettifier ==
    [start |-> 0, pos |-> 0, words |-> <<>>, inSubTest |-> FALSE,
     seenUnderscore |-> FALSE, state |-> "betweenWords"]

\* betweenWords: next() returns peek() and advances.
peekBetweenWords(q) ==
    LET r == peek(q.pos)
        p == q.pos + 1
    IN  CASE r = eof          -> [q EXCEPT !.pos = p, !.state = "nil"]
          [] r \in {"_", "/"} -> [q EXCEPT !.pos = p, !.start = p]
          [] OTHER            -> [q EXCEPT !.pos = p, !.state = "inWord"]

\* p.emit() on the prettifier q.
peekEmit(q) ==
    [q EXCEPT !.words = emit(q.words, q.start, q.pos), !.start = q.pos]

\* A default case that starts a new word after an initialism of one rune.
peekDefaultKeepsGoingLongOnly(q) ==
    \/ input[q.start + 1] = "'"
    \/ ~inInitialism(q.start, q.pos)

\* inWord, default case: the rune is read into the pending word.
peekDefaultKeepsGoing(q) ==
    \/ q.pos - q.start <= 1
    \/ input[q.start + 1] = "'"
    \/ ~inInitialism(q.start, q.pos)

\* inWord: one round of its loop.
peekInWord(q) ==
    LET r == peek(q.pos)
        advance == [q EXCEPT !.pos = q.pos + 1]
    IN  IF ~SliceOK(q.start, q.pos) \/ ~PrevOK(q.pos)
        THEN [q EXCEPT !.state = "panic"]
        ELSE
        CASE r = eof ->
               [peekEmit(q) EXCEPT !.state = "nil"]
          [] r = "_" ->
               IF ~q.seenUnderscore /\ ~q.inSubTest
               THEN [peekEmit(q) EXCEPT
                        !.words = multiWordFunction(peekEmit(q).words),
                        !.seenUnderscore = TRUE,
                        !.state = "betweenWords"]
               ELSE [peekEmit(q) EXCEPT !.state = "betweenWords"]
          [] r = "/" ->
               [peekEmit(q) EXCEPT !.inSubTest = TRUE,
                                   !.state = "betweenWords"]
          [] IsUpper(r) ->
               IF prev(q.pos) = "-" THEN advance
               ELSE IF inInitialism(q.start, q.pos) THEN advance
               ELSE [peekEmit(q) EXCEPT !.state = "betweenWords"]
          [] IsDigit(r) ->
               IF IsDigit(prev(q.pos)) THEN advance
               ELSE IF prev(q.pos) = "-" THEN advance
               ELSE IF prev(q.pos) = "=" THEN advance
               ELSE IF inInitialism(q.start, q.pos) THEN advance
               ELSE peekEmit(q)
          [] OTHER ->
               IF peekDefaultKeepsGoing(q) THEN advance
               ELSE peekEmit([q EXCEPT !.pos = backup(q.pos)])

\* One call of the state function of q.state, up to the next round.
peekStep(q) ==
    IF q.state = "betweenWords" THEN peekBetweenWords(q) ELSE peekInWord(q)

RECURSIVE peekRun(_)
\* for state := betweenWords; state != nil; { state = state(p) }
peekRun(q) ==
    IF q.state \in {"nil", "panic"} THEN q ELSE peekRun(peekStep(q))

\* What the Prettify of the peek() scanner returns for the argument of the
\* call, whose prefix p.input has lost; a panic returns nothing.
peekPrettify ==
    LET q == peekRun(peekPrettifier)
    IN  IF q.state = "panic" THEN <<"panic">> ELSE Join(q.words)

\* Most letters in a function name, and most runes after its underscore.
MaxFuncLen == 3
MaxTailLen == 2

\* Test names that begin with a function name: letters, the first uppercase,
\* then the underscore and the rest of the name.
FuncNameInputs ==
    {TestPrefix \o name \o <<"_">> \o tail :
        name \in {n \in SeqsUpTo({"A", "a", "U+01C4"}, MaxFuncLen) :
                     Len(n) > 0 /\ IsUpper(n[1])},
        tail \in SeqsUpTo({"A", "a", "1", "_", "/"}, MaxTailLen)}

\* The calls of Prettify on those names.
InitFuncNames ==
    /\ raw \in FuncNameInputs
    /\ input = TrimPrefix(raw, TestPrefix)
    /\ start = 0
    /\ pos = 0
    /\ words = <<>>
    /\ inSubTest = FALSE
    /\ seenUnderscore = FALSE
    /\ state = "betweenWords"
    /\ result = <<>>
    /\ emits = <<>>
    /\ debug = "discard"
    /\ out = 0
    /\ calls = NoCalls
    /\ NoFilter
    /\ main = NoMain

SpecFuncNames == InitFuncNames /\ [][Next]_vars

\* Most runes after the beginning of a name.
MaxBodyLen == 2

\* Names by their beginning: no prefix, the prefix, the prefix twice, the
\* prefix after another rune, a part of the prefix, the prefix in lowercase.
PrefixInputs ==
    {pre \o body :
        pre \in {<<>>, TestPrefix, TestPrefix \o TestPrefix,
                 <<"a">> \o TestPrefix, <<"T", "e", "s">>,
                 <<"t", "e", "s", "t">>},
        body \in SeqsUpTo({"A", "a", "1", "_", "/"}, MaxBodyLen)}

\* The calls of Prettify on those names.
InitPrefixes ==
    /\ raw \in PrefixInputs
    /\ input = TrimPrefix(raw, TestPrefix)
    /\ start = 0
    /\ pos = 0
    /\ words = <<>>
    /\ inSubTest = FALSE
    /\ seenUnderscore = FALSE
    /\ state = "betweenWords"
    /\ result = <<>>
    /\ emits = <<>>
    /\ debug = "discard"
    /\ out = 0
    /\ calls = NoCalls
    /\ NoFilter
    /\ main = NoMain

SpecPrefixes == InitPrefixes /\ [][Next]_vars

TypeOK ==
    /\ state \in {"none", "start", "betweenWords", "inWord", "nil", "returned",
                  "panic"}
    /\ start \in Int
    /\ pos \in Int
    /\ inSubTest \in BOOLEAN
    /\ seenUnderscore \in BOOLEAN


(***************************************************************************)
(* Several calls of Prettify.  Each call builds its own prettifier (lines  *)
(* 45-49); the variables of the prettifier above are those of the call     *)
(* that is running, calls.other holds the prettifier of a second call      *)
(* whose goroutine is waiting, and Switch hands the processor over.  When  *)
(* both have finished, one of the two arguments is given to a call that    *)
(* runs alone, and calls.first keeps the finished call to compare with.    *)
(***************************************************************************)
\* What p.debug can be: io.Discard when GOTESTDOX_DEBUG is not set, else
\* DebugWriter, which is a writer (os.Stderr, a buffer) or nil.
DebugKinds == {"discard", "writer", "nil"}

\* The arguments of the calls: names that between them take every case of
\* betweenWords and inWord.
CallInputs ==
    { <<>>,
      TestPrefix \o <<"A", "A", "a", "1">>,
      <<"a", "_", "A", "/", "a">>,
      <<"a", "-", "A">> }

\* The prettifier that is running, as a value.
Running ==
    [raw |-> raw, input |-> input, start |-> start, pos |-> pos,
     words |-> words, inSubTest |-> inSubTest,
     seenUnderscore |-> seenUnderscore, state |-> state, result |-> result,
     emits |-> emits, debug |-> debug]

\* The prettifier c becomes the one that is running.
Resume(c) ==
    /\ raw' = c.raw
    /\ input' = c.input
    /\ start' = c.start
    /\ pos' = c.pos
    /\ words' = c.words
    /\ inSubTest' = c.inSubTest
    /\ seenUnderscore' = c.seenUnderscore
    /\ state' = c.state
    /\ result' = c.result
    /\ emits' = c.emits
    /\ debug' = c.debug

\* A call Prettify(r) that has not begun, with d what p.debug will be.
NewCall(r, d) ==
    [raw |-> r, input |-> <<>>, start |-> 0, pos |-> 0, words |-> <<>>,
     inSubTest |-> FALSE, seenUnderscore |-> FALSE, state |-> "start",
     result |-> <<>>, emits |-> <<>>, debug |-> d]

\* The call c has returned or panicked.
Finished(c) == c.state \in {"returned", "panic"}

InitCalls ==
    /\ \E r1 \in CallInputs, d1 \in DebugKinds :
          /\ raw = r1 /\ debug = d1
          /\ input = <<>> /\ start = 0 /\ pos = 0 /\ words = <<>>
          /\ inSubTest = FALSE /\ seenUnderscore = FALSE
          /\ state = "start" /\ result = <<>> /\ emits = <<>>
    /\ \E r2 \in CallInputs, d2 \in DebugKinds :
          calls = [phase |-> "both", other |-> NewCall(r2, d2),
                   first |-> NewCall(<<>>, "discard")]
    /\ out = 0
    /\ NoFilter
    /\ main = NoMain

\* A Prettify that keeps the prefix when it logs to a writer.
PrettifyStartDebugKeepsPrefix ==
    /\ state = "start"
    /\ input' = IF debug = "writer" THEN raw ELSE TrimPrefix(raw, TestPrefix)
    /\ words' = <<>>
    /\ IF debug = "nil"
       THEN state' = "panic" /\ UNCHANGED out
       ELSE /\ state' = "betweenWords"
            /\ out' = IF debug = "writer" THEN out + 1 ELSE out
    /\ UNCHANGED <<raw, start, pos, inSubTest, seenUnderscore, result, emits,
                   debug, calls, filterVars, main>>

\* Prettify, lines 45-53: the prettifier is built and the input logged.
\* fmt.Fprintln on a nil io.Writer is a nil pointer dereference.
PrettifyStart ==
    /\ state = "start"
    /\ input' = TrimPrefix(raw, TestPrefix)
    /\ words' = <<>>
    /\ IF debug = "nil"
       THEN state' = "panic" /\ UNCHANGED out
       ELSE /\ state' = "betweenWords"
            /\ out' = IF debug = "writer" THEN out + 1 ELSE out
    /\ UNCHANGED <<raw, start, pos, inSubTest, seenUnderscore, result, emits,
                   debug, calls, filterVars, main>>

\* A switch between two calls that share one word sequence.
SwitchSharedWords ==
    /\ calls.phase = "both"
    /\ ~Finished(calls.other)
    /\ Resume([calls.other EXCEPT !.words = words])
    /\ calls' = [calls EXCEPT !.other = Running]
    /\ UNCHANGED <<out, filterVars, main>>

\* The goroutine of the other call runs: its prettifier is the one it
\* built, untouched since it last ran.
Switch ==
    /\ calls.phase = "both"
    /\ ~Finished(calls.other)
    /\ Resume(calls.other)
    /\ calls' = [calls EXCEPT !.other = Running]
    /\ UNCHANGED <<out, filterVars, main>>

\* Both calls have finished: Prettify is called again, alone, on the
\* argument of one of them.
RunAlone ==
    /\ calls.phase = "both"
    /\ Finished(Running) /\ Finished(calls.other)
    /\ \E c \in {Running, calls.other}, d \in DebugKinds :
          /\ Resume(NewCall(c.raw, d))
          /\ calls' = [calls EXCEPT !.phase = "alone", !.first = c]
    /\ UNCHANGED <<out, filterVars, main>>

NextCalls ==
    \/ PrettifyStart
    \/ Switch
    \/ RunAlone
    \/ Next

SpecCalls == InitCalls /\ [][NextCalls]_vars

(***************************************************************************)
(* Filter (src/gotestdox.go, lines 35-60).  Its input is a sequence of     *)
(* lines: the JSON text of an event, a text that json.Unmarshal rejects,   *)
(* or a line longer than bufio.MaxScanTokenSize, at which scanner.Scan()   *)
(* returns false.  A relevant event is printed with Event.String, which    *)
(* calls Prettify: the call is made of the steps above.                    *)
(***************************************************************************)
\* Most lines in the input of Filter.
MaxLines == 2

FilterTests ==
    { <<>>,
      TestPrefix \o <<"A", "A", "a", "1">>,
      TestPrefix \o <<"a", "_", "A", "/">>,
      <<"E", "x", "a", "m", "p", "l", "e", "A">> }

\* The events of the input; a line without a Package field gives the
\* Package "".
Events ==
    [Action : {"pass", "fail", "run"}, Package : {"", "p", "q"},
     Test : FilterTests]

\* The lines of the input: an object that decodes into an Event ("json"),
\* a line that is not JSON ("invalid"), an object with a field of the wrong
\* type, event being the fields decoded before it ("mistyped"), and a line
\* longer than the buffer of the scanner ("tooLong").
FilterLines ==
    {[kind |-> "json", event |-> e] : e \in Events}
    \cup {[kind |-> "invalid", event |-> NoEvent],
          [kind |-> "mistyped",
           event |-> [Action |-> "fail", Package |-> "p",
                      Test |-> TestPrefix \o <<"A", "A", "a", "1">>]],
          [kind |-> "tooLong", event |-> NoEvent]}

\* An Event.Relevant that does not look at the action.
RelevantWhateverAction(e) == HasPrefix(e.Test, TestPrefix)

\* Event.Relevant.
Relevant(e) ==
    IF ~HasPrefix(e.Test, TestPrefix) THEN FALSE
    ELSE IF e.Action = "pass" \/ e.Action = "fail" THEN TRUE
    ELSE FALSE

\* json.Unmarshal into an Event{}: the event as it leaves it, and whether
\* err is non-nil.  A line that is not valid JSON is rejected before any
\* field is decoded; a field of the wrong type is reported after the other
\* fields have been decoded.
Unmarshal(line) ==
    IF line.kind = "json" THEN [event |-> line.event, err |-> FALSE]
    ELSE IF line.kind = "mistyped" THEN [event |-> line.event, err |-> TRUE]
    ELSE [event |-> NoEvent, err |-> TRUE]

\* A ParseJSON that returns the event as json.Unmarshal left it and no
\* error.
ParseJSONIgnoresErr(line) == [event |-> Unmarshal(line).event, err |-> FALSE]

\* ParseJSON: the event and whether err is non-nil.
ParseJSON(line) ==
    LET u == Unmarshal(line)
    IN  IF u.err THEN [event |-> NoEvent, err |-> TRUE]
        ELSE [event |-> u.event, err |-> FALSE]

\* The header lines Filter writes before the result of the event e.
Headers(e) ==
    IF e.Package # curPkg
    THEN (IF curPkg # "" THEN <<[kind |-> "blank"]>> ELSE <<>>)
         \o <<[kind |-> "header", pkg |-> e.Package]>>
    ELSE <<>>

\* Event.String: the line of the event e, sentence being what Prettify
\* returned for e.Test.  The field event records what the line was made
\* from.
String(e, sentence) ==
    [kind |-> "result",
     status |-> IF e.Action = "pass" THEN "check" ELSE "x",
     sentence |-> sentence,
     event |-> e]

\* No call of Prettify is in progress.
NoPrettifier == [NewCall(<<>>, debug) EXCEPT !.state = "none"]

InitFilter ==
    /\ scanner \in SeqsUpTo(FilterLines, MaxLines)
    /\ allOK = TRUE
    /\ curPkg = ""
    /\ event = NoEvent
    /\ output = <<>>
    /\ pc = "scan"
    /\ consumed = <<>>
    /\ raw = <<>> /\ input = <<>> /\ start = 0 /\ pos = 0 /\ words = <<>>
    /\ inSubTest = FALSE /\ seenUnderscore = FALSE /\ state = "none"
    /\ result = <<>> /\ emits = <<>>
    /\ debug = "discard"
    /\ out = 0
    /\ calls = NoCalls
    /\ main = NoMain

\* scanner.Scan() returns false at the end of the input: Filter returns.
FilterEnd ==
    /\ pc = "scan"
    /\ scanner = <<>>
    /\ pc' = "returned"
    /\ UNCHANGED <<scanner, allOK, curPkg, event, output, consumed,
                   prettifierVars, debug, out, calls,
                   main>>

\* scanner.Scan() returns false at a line that is too long for its buffer
\* (bufio.ErrTooLong, which Filter does not look at): Filter returns.
FilterTooLong ==
    /\ pc = "scan"
    /\ scanner # <<>>
    /\ Head(scanner).kind = "tooLong"
    /\ pc' = "returned"
    /\ UNCHANGED <<scanner, allOK, curPkg, event, output, consumed,
                   prettifierVars, debug, out, calls,
                   main>>

\* A Filter that forgets the current package at a line it cannot parse.
FilterParseErrorResetsPkg ==
    /\ pc = "scan"
    /\ scanner # <<>>
    /\ Head(scanner).kind # "tooLong"
    /\ ParseJSON(Head(scanner)).err
    /\ scanner' = Tail(scanner)
    /\ consumed' = Append(consumed, Head(scanner))
    /\ curPkg' = ""
    /\ UNCHANGED <<allOK, event, output, pc, prettifierVars, debug, out, calls,
                   main>>

\* ParseJSON returns an error: continue.
FilterParseError ==
    /\ pc = "scan"
    /\ scanner # <<>>
    /\ Head(scanner).kind # "tooLong"
    /\ ParseJSON(Head(scanner)).err
    /\ scanner' = Tail(scanner)
    /\ consumed' = Append(consumed, Head(scanner))
    /\ UNCHANGED <<allOK, curPkg, event, output, pc, prettifierVars, debug,
                   out, calls,
                   main>>

\* An event that is not relevant is dropped before the flag is set.
FilterIrrelevantBeforeFlag ==
    /\ pc = "scan"
    /\ scanner # <<>>
    /\ Head(scanner).kind # "tooLong"
    /\ ~ParseJSON(Head(scanner)).err
    /\ LET e == ParseJSON(Head(scanner)).event
       IN  /\ ~Relevant(e)
           /\ event' = e
    /\ scanner' = Tail(scanner)
    /\ consumed' = Append(consumed, Head(scanner))
    /\ UNCHANGED <<allOK, curPkg, output, pc, prettifierVars, debug, out,
                   calls,
                   main>>

\* An event that is not relevant: the flag is set, then continue.
FilterIrrelevant ==
    /\ pc = "scan"
    /\ scanner # <<>>
    /\ Head(scanner).kind # "tooLong"
    /\ ~ParseJSON(Head(scanner)).err
    /\ LET e == ParseJSON(Head(scanner)).event
       IN  /\ ~Relevant(e)
           /\ event' = e
           /\ allOK' = IF e.Action = "fail" THEN FALSE ELSE allOK
    /\ scanner' = Tail(scanner)
    /\ consumed' = Append(consumed, Head(scanner))
    /\ UNCHANGED <<curPkg, output, pc, prettifierVars, debug, out, calls,
                   main>>

\* A relevant event: the flag is set, the headers are written, and
\* fmt.Fprintln calls event.String(), which calls Prettify(e.Test).
FilterRelevant ==
    /\ pc = "scan"
    /\ scanner # <<>>
    /\ Head(scanner).kind # "tooLong"
    /\ ~ParseJSON(Head(scanner)).err
    /\ LET e == ParseJSON(Head(scanner)).event
       IN  /\ Relevant(e)
           /\ event' = e
           /\ allOK' = IF e.Action = "fail" THEN FALSE ELSE allOK
           /\ output' = output \o Headers(e)
           /\ curPkg' = e.Package
           /\ Resume(NewCall(e.Test, debug))
    /\ scanner' = Tail(scanner)
    /\ consumed' = Append(consumed, Head(scanner))
    /\ pc' = "string"
    /\ UNCHANGED <<out, calls,
                   main>>

\* Prettify has returned: the line of the event is written.  A panic in
\* Prettify ends Filter.
FilterPrint ==
    /\ pc = "string"
    /\ Finished(Running)
    /\ IF state = "returned"
       THEN /\ output' = Append(output, String(event, result))
            /\ pc' = "scan"
       ELSE /\ pc' = "panic"
            /\ UNCHANGED output
    /\ Resume(NoPrettifier)
    /\ UNCHANGED <<scanner, allOK, curPkg, event, consumed, out, calls,
                   main>>

NextFilter ==
    \/ FilterEnd
    \/ FilterTooLong
    \/ FilterParseError
    \/ FilterIrrelevant
    \/ FilterRelevant
    \/ FilterPrint
    \/ PrettifyStart
    \/ Next

SpecFilter == InitFilter /\ [][NextFilter]_vars

\* Most lines in a longer input of Filter.
MaxRecords == 3

\* The lines of the longer inputs: tests that passed, in three packages,
\* one of them the empty Package, and one line of each other kind.
PackageLines ==
    { l \in FilterLines :
         \/ l.kind # "json"
         \/ /\ l.event.Action = "pass"
            /\ HasPrefix(l.event.Test, TestPrefix)
         \/ /\ l.event.Action = "run"
            /\ l.event.Package = "p"
            /\ l.event.Test = <<>> }

InitPackages ==
    /\ scanner \in SeqsUpTo(PackageLines, MaxRecords)
    /\ allOK = TRUE
    /\ curPkg = ""
    /\ event = NoEvent
    /\ output = <<>>
    /\ pc = "scan"
    /\ consumed = <<>>
    /\ raw = <<>> /\ input = <<>> /\ start = 0 /\ pos = 0 /\ words = <<>>
    /\ inSubTest = FALSE /\ seenUnderscore = FALSE /\ state = "none"
    /\ result = <<>> /\ emits = <<>>
    /\ debug = "discard"
    /\ out = 0
    /\ calls = NoCalls
    /\ main = NoMain

SpecPackages == InitPackages /\ [][NextFilter]_vars

(***************************************************************************)
(* The program: main calls ExecGoTest when its standard input is a        *)
(* terminal and Filter on the standard input when it is not, and exits    *)
(* with status 1 when the result is false.  ExecGoTest starts the go test *)
(* command, hands its output to Filter and waits for it.                  *)
(***************************************************************************)
\* The call on the go test command that returns an error: cmd.StdoutPipe,
\* cmd.Start, cmd.Wait (the command has exited with an error), or none.
CmdErrs == {"none", "pipe", "start", "wait"}

\* The lines the program reads, from the command or the standard input.
MainLines ==
    { l \in FilterLines :
         \/ l.kind # "json"
         \/ /\ l.event.Package = "p"
            /\ l.event.Action \in {"pass", "fail"} }

InitMain ==
    /\ scanner \in SeqsUpTo(MainLines, MaxLines)
    /\ allOK = TRUE
    /\ curPkg = ""
    /\ event = NoEvent
    /\ output = <<>>
    /\ pc = "none"
    /\ consumed = <<>>
    /\ raw = <<>> /\ input = <<>> /\ start = 0 /\ pos = 0 /\ words = <<>>
    /\ inSubTest = FALSE /\ seenUnderscore = FALSE /\ state = "none"
    /\ result = <<>> /\ emits = <<>>
    /\ debug = "discard"
    /\ out = 0
    /\ calls = NoCalls
    /\ \E t \in BOOLEAN, e \in CmdErrs :
          /\ ~t => e = "none"
          /\ main = [pc |-> "main", tty |-> t, err |-> e, allOK |-> TRUE,
                     status |-> -1]

\* main, standard input not a terminal: Filter is called on it.
MainFilter ==
    /\ main.pc = "main"
    /\ ~main.tty
    /\ pc' = "scan"
    /\ main' = [main EXCEPT !.pc = "filter"]
    /\ UNCHANGED <<scanner, allOK, curPkg, event, output, consumed,
                   prettifierVars, debug, out, calls>>

\* main: Filter has returned, its result is assigned to allOK.
MainFilterReturns ==
    /\ main.pc = "filter"
    /\ pc = "returned"
    /\ main' = [main EXCEPT !.pc = "returned", !.allOK = allOK]
    /\ UNCHANGED <<prettifierVars, debug, out, calls, filterVars>>

\* ExecGoTest: cmd.StdoutPipe or cmd.Start returns an error, and log.Fatal
\* ends the process with status 1.
ExecGoTestFatal ==
    /\ main.pc = "main"
    /\ main.tty
    /\ main.err \in {"pipe", "start"}
    /\ main' = [main EXCEPT !.pc = "exit", !.status = 1]
    /\ UNCHANGED <<prettifierVars, debug, out, calls, filterVars>>

\* ExecGoTest: the command is started and Filter is called on its output.
ExecGoTestFilter ==
    /\ main.pc = "main"
    /\ main.tty
    /\ main.err \notin {"pipe", "start"}
    /\ pc' = "scan"
    /\ main' = [main EXCEPT !.pc = "exec"]
    /\ UNCHANGED <<scanner, allOK, curPkg, event, output, consumed,
                   prettifierVars, debug, out, calls>>

\* An ExecGoTest that returns what Filter returned, whatever cmd.Wait says.
ExecGoTestWaitIgnoresErr ==
    /\ main.pc = "exec"
    /\ pc = "returned"
    /\ main' = [main EXCEPT !.pc = "returned", !.allOK = allOK]
    /\ UNCHANGED <<prettifierVars, debug, out, calls, filterVars>>

\* ExecGoTest: Filter has returned; cmd.Wait, and the result goes to the
\* allOK of main.
ExecGoTestWait ==
    /\ main.pc = "exec"
    /\ pc = "returned"
    /\ main' = [main EXCEPT !.pc = "returned",
                            !.allOK = IF main.err = "wait" THEN FALSE
                                      ELSE allOK]
    /\ UNCHANGED <<prettifierVars, debug, out, calls, filterVars>>

\* main: os.Exit(1) when allOK is false, else main returns and the status
\* is 0.
MainExit ==
    /\ main.pc = "returned"
    /\ main' = [main EXCEPT !.pc = "exit",
                            !.status = IF ~main.allOK THEN 1 ELSE 0]
    /\ UNCHANGED <<prettifierVars, debug, out, calls, filterVars>>

NextMain ==
    \/ MainFilter
    \/ MainFilterReturns
    \/ ExecGoTestFatal
    \/ ExecGoTestFilter
    \/ ExecGoTestWait
    \/ MainExit
    \/ NextFilter

SpecMain == InitMain /\ [][NextMain]_vars

(***************************************************************************)
(* Vocabulary of the properties.                                           *)
(***************************************************************************)
Separators == {"_", "/"}

\* u occurs in v as a contiguous substring.
IsSubstring(u, v) ==
    \E k \in 0..(Len(v) - Len(u)) : SubSeq(v, k + 1, k + Len(u)) = u

\* The words of a sentence: the maximal runs of runes other than a space.
RECURSIVE SplitFrom(_, _, _)
SplitFrom(s, i, acc) ==
    IF i > Len(s) THEN <<acc>>
    ELSE IF s[i] = " " THEN <<acc>> \o SplitFrom(s, i + 1, <<>>)
    ELSE SplitFrom(s, i + 1, Append(acc, s[i]))

Split(s) == IF s = <<>> THEN <<>> ELSE SplitFrom(s, 1, <<>>)

\* input[i..j] (1-based) is a maximal run of uppercase letters.
UpperRun(i, j) ==
    /\ 1 <= i /\ i <= j /\ j <= Len(input)
    /\ \A k \in i..j : IsUpper(input[k])
    /\ (i = 1 \/ ~IsUpper(input[i - 1]))
    /\ (j = Len(input) \/ ~IsUpper(input[j + 1]))

\* The 1-based index of the first rune of the input that is not a separator
\* (0 if there is none).
FirstWordRune ==
    IF \E i \in 1..Len(input) : input[i] \notin Separators
    THEN CHOOSE i \in 1..Len(input) :
            /\ input[i] \notin Separators
            /\ \A k \in 1..(i - 1) : input[k] \in Separators
    ELSE 0

EmitSet == {emits[k] : k \in 1..Len(emits)}

(***************************************************************************)
(* C1.                                                                     *)
(***************************************************************************)
\* C1: the string Prettify returns holds neither '_' nor '/'.
C1_NoSeparatorInOutput ==
    state = "returned" =>
        \A i \in 1..Len(result) : result[i] \notin Separators

C1_Witness ==
    /\ state = "returned"
    /\ Len(words) >= 2
    /\ \E i, j \in 1..Len(input) : input[i] = "_" /\ input[j] = "/"

(***************************************************************************)
(* C2.                                                                     *)
(***************************************************************************)
\* A measure of the work left: the runes not yet consumed weigh three each;
\* a pending word weighs more the closer it is to the camel-case backtrack,
\* which gives one rune back.
Pending ==
    IF state # "inWord" \/ start >= pos THEN 0
    ELSE IF ~inInitialism(start, pos) THEN 1
    ELSE IF pos - start = 1 THEN 2
    ELSE 4

Variant ==
    CASE state \in {"returned", "panic"} -> 0
      [] state = "nil"                    -> 1
      [] OTHER -> 2 + 3 * (Len(input) - pos) + Pending

\* C2: Prettify terminates: every step of the scanner strictly decreases a
\* measure that is a natural number, and a step is possible until Prettify
\* has returned, so the scanner reaches nil and Prettify returns after
\* finitely many steps.
C2_Terminates ==
    /\ [](Variant \in Nat)
    /\ [](state \notin {"returned", "panic"} => ENABLED Next)
    /\ [][Variant' < Variant]_vars

\* Prettify has returned for an input that ends with an initialism, after a
\* camel-case backtrack.
C2_Witness ==
    /\ state = "returned"
    /\ \E e \in EmitSet : e.by = "default"
    /\ \E e \in EmitSet :
          /\ e.by = "eof"
          /\ e.to - e.from >= 2
          /\ \A k \in (e.from + 1)..e.to : IsUpper(input[k])

(***************************************************************************)
(* C3.                                                                     *)
(***************************************************************************)
\* C3: Prettify never indexes or slices outside its input: no prev() with
\* pos < 1, no span input[start:pos] unless 0 <= start <= pos <= len(input).
C3_NoOutOfRange ==
    /\ state # "panic"
    /\ SliceOK(start, pos)

\* After the two backup() calls of the backtrack the pending span is empty,
\* and the uppercase case is about to call prev().
C3_Witness ==
    /\ state = "inWord"
    /\ start = pos
    /\ Len(emits) >= 1
    /\ emits[Len(emits)].by = "default"
    /\ IsUpper(nextRune(pos))

(***************************************************************************)
(* C4.                                                                     *)
(***************************************************************************)
\* C4 as stated: a non-empty result begins with an uppercase letter.
C4_FirstRuneUppercase ==
    (state = "returned" /\ result # <<>>) => IsUpper(result[1])

\* C4 as amended: a non-empty result begins with the title case of the first
\* rune of the input that is not a separator; it never begins with a
\* lowercase letter.
C4_FirstRuneTitled ==
    (state = "returned" /\ result # <<>>) =>
        /\ FirstWordRune # 0
        /\ result[1] = RuneToTitle(input[FirstWordRune])
        /\ ~IsLower(result[1])

C4_Witness ==
    /\ state = "returned"
    /\ Len(words) >= 2
    /\ FirstWordRune # 0
    /\ IsLower(input[FirstWordRune])
    /\ IsUpper(result[1])

(***************************************************************************)
(* C5.                                                                     *)
(***************************************************************************)
\* C5: for "Test" and for "Test" followed by separators only, Prettify
\* returns the empty string and emits no word.
C5_OnlySeparatorsGiveEmpty ==
    ( /\ state = "returned"
      /\ HasPrefix(raw, TestPrefix)
      /\ \A i \in (Len(TestPrefix) + 1)..Len(raw) : raw[i] \in Separators )
    => (result = <<>> /\ emits = <<>>)

C5_Witness ==
    /\ state = "returned"
    /\ HasPrefix(raw, TestPrefix)
    /\ Len(raw) >= Len(TestPrefix) + 2
    /\ \A i \in (Len(TestPrefix) + 1)..Len(raw) : raw[i] \in Separators
    /\ \E i, j \in 1..Len(raw) : raw[i] = "_" /\ raw[j] = "/"
    /\ result = <<>>

(***************************************************************************)
(* C6.                                                                     *)
(***************************************************************************)
\* The runes input[i] and input[i+1] (1-based) are both in the span
\* input[s:p].
BothInSpan(i, s, p) == s < i /\ i + 1 <= p

\* C6: a lowercase letter and the uppercase letter that follows it are never
\* in the same span, neither the pending one nor an emitted one.
C6_CamelCaseBreaks ==
    \A i \in 1..(Len(input) - 1) :
        (IsLower(input[i]) /\ IsUpper(input[i + 1])) =>
            /\ ~BothInSpan(i, start, pos)
            /\ \A e \in EmitSet : ~BothInSpan(i, e.from, e.to)

C6_Witness ==
    \E i \in 1..(Len(input) - 1) :
        /\ IsLower(input[i]) /\ IsUpper(input[i + 1])
        /\ pos >= i + 1
        /\ start = i
        /\ \E e \in EmitSet : e.to = i /\ e.by = "upper"

(***************************************************************************)
(* C7.                                                                     *)
(***************************************************************************)
\* input[i..j] is a maximal uppercase run of two or more letters that a
\* lowercase letter follows, and that lowercase letter has been consumed.
RunThenLowerScanned(i, j) ==
    /\ UpperRun(i, j)
    /\ j - i >= 1
    /\ j < Len(input)
    /\ IsLower(input[j + 1])
    /\ pos >= j + 1

\* The last letter of the run input[i..j] begins the next word.
LastLetterBeginsNextWord(j) ==
    \/ start = j - 1
    \/ \E e \in EmitSet : e.from = j - 1 /\ e.to >= j + 1

\* The run begins a word: it follows the start of the input, a separator or
\* a lowercase letter.
RunBeginsWord(i) ==
    \/ i = 1
    \/ input[i - 1] \in Separators
    \/ IsLower(input[i - 1])

C8_InitialismsVerbatim ==
    state = "returned" =>
        \A i, j \in 1..Len(input) :
            ( /\ UpperRun(i, j)
              /\ j - i >= 1
              /\ (j = Len(input) \/ ~IsLower(input[j + 1])) )
            => IsSubstring(SubSeq(input, i, j), result)

(***************************************************************************)
(* C9.                                                                     *)
(***************************************************************************)
\* C9: in the result, a word of one letter that is not the first word is
\* not an uppercase letter.
C9_SingleLettersLowercase ==
    state = "returned" =>
        LET ws == Split(result)
        IN  \A k \in 2..Len(ws) : Len(ws[k]) = 1 => ~IsUpper(ws[k][1])

(***************************************************************************)
(* C10.                                                                    *)
(***************************************************************************)
\* C10: a word emitted after the first one and longer than one rune keeps
\* the casing of the input if its span holds no lowercase letter, and is all
\* lowercase otherwise.
C10_CasingOfLaterWords ==
    \A e \in EmitSet :
        (e.nth >= 1 /\ e.to - e.from > 1) =>
            LET span == SubSeq(input, e.from + 1, e.to)
            IN  IF \A k \in 1..Len(span) : ~IsLower(span[k])
                THEN e.word = span
                ELSE /\ Len(e.word) = Len(span)
                     /\ \A k \in 1..Len(span) :
                           /\ ~IsUpper(e.word[k])
                           /\ RuneToLower(span[k]) = e.word[k]

\* Both kinds of word have been emitted after the first word: an initialism
\* kept as it is and a word with an uppercase letter that was lowercased.
C10_Witness ==
    /\ \E e \in EmitSet :
          /\ e.nth >= 1 /\ e.to - e.from > 1
          /\ \A k \in (e.from + 1)..e.to : IsUpper(input[k])
          /\ e.word = SubSeq(input, e.from + 1, e.to)
    /\ \E e \in EmitSet :
          /\ e.nth >= 1 /\ e.to - e.from > 1
          /\ \E k \in (e.from + 1)..e.to : IsLower(input[k])
          /\ \E k \in (e.from + 1)..e.to : IsUpper(input[k])
          /\ e.word # SubSeq(input, e.from + 1, e.to)

(***************************************************************************)
(* C11.                                                                    *)
(***************************************************************************)
\* The entries of the history whose emit() was followed by
\* multiWordFunction().
Merges == {k \in 1..Len(emits) : emits[k].merged}

\* u is a prefix of v.
IsPrefix(u, v) == Len(u) <= Len(v) /\ SubSeq(v, 1, Len(u)) = u

\* C11: multiWordFunction() runs at most once in a call of Prettify; once
\* seenUnderscore is true it stays true, and from then on every step leaves
\* the words already emitted in place, only appending to them.
C11_MergeAtMostOnce ==
    /\ [](Cardinality(Merges) <= 1)
    /\ [][seenUnderscore => (seenUnderscore' /\ IsPrefix(words, words'))]_vars

\* The merge has happened and a later underscore has ended a word without
\* merging.
C11_Witness ==
    /\ seenUnderscore
    /\ \E k \in Merges : \E j \in (k + 1)..Len(emits) :
          emits[j].by = "underscore" /\ ~emits[j].merged
    /\ Len(words) >= 2

(***************************************************************************)
(* C12.                                                                    *)
(***************************************************************************)
\* C12: once a '/' of the input has been consumed, inSubTest is true, and
\* no emit() whose span ends after a '/' is followed by multiWordFunction().
C12_SubTestStopsMerge ==
    /\ (\E i \in 1..pos : input[i] = "/") => inSubTest
    /\ \A k \in Merges : \A i \in 1..emits[k].to : input[i] # "/"

(***************************************************************************)
(* C13.                                                                    *)
(***************************************************************************)
\* C13: the underscore that makes multiWordFunction() run is the first
\* underscore of the input, and a step that ends a word at a later
\* underscore leaves the words already emitted in place.
C13_OnlyFirstUnderscoreMerges ==
    /\ \A k \in Merges : \A i \in 1..emits[k].to : input[i] # "_"
    /\ \A k \in 1..Len(emits) :
          (/\ emits[k].by = "underscore"
           /\ \E i \in 1..emits[k].to : input[i] = "_")
              => ~emits[k].merged

(***************************************************************************)
(* C14.                                                                    *)
(***************************************************************************)
\* The word w with its first rune in title case and the rest as it is.
CapFirst(w) == IF w = <<>> THEN w ELSE <<RuneToTitle(w[1])>> \o Tail(w)

RECURSIVE CapFirstConcat(_, _)
\* The concatenation of the words of the first k emits, each with its first
\* rune capitalised.
CapFirstConcat(es, k) ==
    IF k = 0 THEN <<>>
    ELSE CapFirstConcat(es, k - 1) \o CapFirst(es[k].word)

\* C14: after the hint has fired at the k-th emit, the first word is the
\* concatenation, in order, of the k words emitted until then, each with its
\* first letter capitalised and otherwise unchanged, and the words emitted
\* afterwards follow it.
C14_MergeConcatenatesCapitalised ==
    \A k \in Merges :
        /\ Len(words) = 1 + Len(emits) - k
        /\ words[1] = CapFirstConcat(emits, k)
        /\ \A j \in (k + 1)..Len(emits) : words[1 + j - k] = emits[j].word

(***************************************************************************)
(* C15.                                                                    *)
(***************************************************************************)
\* The span of the input each word of the word sequence was made from: the
\* span of its emit(), and for the merged word the span from the start of
\* the first emit() to the end of the one the merge followed.
WordSpans ==
    LET span(j) == [from |-> emits[j].from, to |-> emits[j].to]
    IN  IF Merges = {}
        THEN [j \in 1..Len(emits) |-> span(j)]
        ELSE LET k == CHOOSE m \in Merges : TRUE
             IN  <<[from |-> emits[1].from, to |-> emits[k].to]>> \o
                 [j \in 1..(Len(emits) - k) |-> span(k + j)]

\* The word w is the span sp of the input, letter for letter up to case.
SpellsSpan(w, sp) ==
    /\ Len(w) = sp.to - sp.from
    /\ \A j \in 1..Len(w) : RuneToLower(w[j]) = RuneToLower(input[sp.from + j])

\* C15: a step of inWord that meets a '_' or a '/' ends the pending word
\* there, and every word of the word sequence, the merged one included,
\* spells a span of the input that holds no '_' and no '/'.
C15_SeparatorEndsWord ==
    /\ [][(/\ state = "inWord"
           /\ pos < Len(input)
           /\ input[pos + 1] \in Separators)
             => (/\ Len(emits') = Len(emits) + 1
                 /\ emits'[Len(emits')].to = pos
                 /\ start' = pos
                 /\ state' = "betweenWords")]_vars
    /\ [](/\ Len(WordSpans) = Len(words)
          /\ \A n \in 1..Len(words) :
                /\ SpellsSpan(words[n], WordSpans[n])
                /\ \A i \in (WordSpans[n].from + 1)..WordSpans[n].to :
                      input[i] \notin Separators)

\* Two words have been merged at an underscore and a later word has been
\* ended by a '/'.
C15_Witness ==
    /\ state = "returned"
    /\ \E k \in Merges :
          /\ k >= 2
          /\ \E j \in (k + 1)..Len(emits) : emits[j].by = "slash"

(***************************************************************************)
(* C16.                                                                    *)
(***************************************************************************)
\* The number of spaces in the sentence s.
Spaces(s) == Cardinality({i \in 1..Len(s) : s[i] = " "})

\* C16: emit() is never called on an empty span and no word is empty; what
\* lies between two successive emitted spans is separators only, however
\* many, and gives one break; the result has one space between successive
\* words and none before the first, after the last or next to another.
C16_OneBreakPerSeparatorRun ==
    /\ \A e \in EmitSet : e.to > e.from /\ e.word # <<>>
    /\ \A n \in 1..Len(words) : words[n] # <<>>
    /\ \A j \in 1..(Len(emits) - 1) :
          /\ emits[j].to <= emits[j + 1].from
          /\ \A i \in (emits[j].to + 1)..emits[j + 1].from :
                input[i] \in Separators
    /\ state = "returned" =>
          /\ result # <<>> => (result[1] # " " /\ result[Len(result)] # " ")
          /\ \A i \in 1..(Len(result) - 1) :
                ~(result[i] = " " /\ result[i + 1] = " ")
          /\ Len(words) >= 1 => Spaces(result) = Len(words) - 1

\* A result of two words that two or more consecutive separators separate
\* in the input.
C16_Witness ==
    /\ state = "returned"
    /\ Len(words) = 2
    /\ Spaces(result) = 1
    /\ emits[2].from - emits[1].to >= 2

(***************************************************************************)
(* C17.                                                                    *)
(***************************************************************************)
\* The emitted span e ends at a '_', at a '/' or at the end of the input
\* (next() reads the rune U+0000 as the end of the input, after having
\* advanced over it).
EndsAtSeparator(e) ==
    e.to = Len(input) \/ input[e.to] = eof \/ input[e.to + 1] \in Separators

\* The emitted span e holds a lowercase letter.
HasLower(e) == \E k \in (e.from + 1)..e.to : IsLower(input[k])

\* C17 as stated: a word that holds a hyphen after its first rune ends only
\* at a '_', at a '/' or at the end of the input.
C17_HyphenSuspendsBoundaries ==
    \A e \in EmitSet :
        (\E k \in (e.from + 2)..e.to : input[k] = "-") => EndsAtSeparator(e)

\* C17, amended: a word that holds a lowercase letter is not ended at a
\* hyphen: not before the hyphen, nor between the hyphen and the uppercase
\* letter, digit or other rune after it.
C17_HyphenJoinsNeighbours ==
    \A e \in EmitSet :
        HasLower(e) =>
            /\ input[e.to] = "-" => EndsAtSeparator(e)
            /\ ~EndsAtSeparator(e) => input[e.to + 1] # "-"

\* A word that begins with a lowercase letter has been emitted in which a
\* hyphen is followed by an uppercase letter and another one by a digit.
C17_Witness ==
    \E e \in EmitSet :
        /\ IsLower(input[e.from + 1])
        /\ \E k \in (e.from + 2)..(e.to - 1) :
              input[k] = "-" /\ IsUpper(input[k + 1])
        /\ \E k \in (e.from + 2)..(e.to - 1) :
              input[k] = "-" /\ IsDigit(input[k + 1])

IsLetter(r) == IsUpper(r) \/ IsLower(r)

\* A hyphen or an apostrophe stands at k between two letters of the input,
\* the first of which is not the first letter of the sentence.
Joins(k) ==
    /\ 1 < k /\ k < Len(input)
    /\ input[k] \in {"-", "'"}
    /\ IsLetter(input[k - 1]) /\ IsLetter(input[k + 1])
    /\ k - 1 # FirstWordRune

\* C19: two letters of the input joined by a hyphen or an apostrophe
\* appear in the result as they are in the input, joined and in the same
\* case.
C19_JoinedSpansKeepCase ==
    state = "returned" =>
        \A k \in 1..Len(input) :
            Joins(k) => IsSubstring(SubSeq(input, k - 1, k + 1), result)

(***************************************************************************)
(* C20.                                                                    *)
(***************************************************************************)
\* A word is pending that holds a lowercase letter and ends with a letter,
\* and the next rune of the input is a digit.
DigitFollowsLetter ==
    /\ state = "inWord"
    /\ start < pos /\ pos < Len(input)
    /\ IsLetter(input[pos])
    /\ IsDigit(input[pos + 1])
    /\ \E k \in (start + 1)..pos : IsLower(input[k])

\* C20: when a digit follows the last letter of a pending word that holds a
\* lowercase letter, the step emits the whole pending word, without the
\* digit, and the digit begins the next pending word; a word emitted at a
\* digit spells its span rune for rune and does not end with a digit.
C20_DigitAfterLetterBreaks ==
    /\ [][DigitFollowsLetter =>
             /\ Len(emits') = Len(emits) + 1
             /\ LET e == emits'[Len(emits')]
                IN  /\ e.from = start /\ e.to = pos
                    /\ SpellsSpan(e.word, [from |-> start, to |-> pos])
                    /\ words' = Append(words, e.word)
             /\ start' = pos
             /\ pos' = pos + 1
             /\ state' = "inWord"]_vars
    /\ [](\A e \in EmitSet :
            e.by = "digit" =>
                /\ SpellsSpan(e.word, [from |-> e.from, to |-> e.to])
                /\ ~IsDigit(e.word[Len(e.word)]))

\* A word of two or more runes has been ended by a digit, and the word
\* after it begins with that digit.
C20_Witness ==
    /\ state = "returned"
    /\ \E j \in 1..(Len(emits) - 1) :
          /\ emits[j].by = "digit"
          /\ emits[j].to - emits[j].from >= 2
          /\ IsLetter(input[emits[j].to])
          /\ emits[j + 1].from = emits[j].to
          /\ IsDigit(emits[j + 1].word[1])

(***************************************************************************)
(* C21.                                                                    *)
(***************************************************************************)
\* C21: no emitted span ends between two digits of the input, so a run of
\* consecutive digits lies in one word.
C21_DigitRunsStayTogether ==
    \A e \in EmitSet :
        (e.to < Len(input) /\ IsDigit(input[e.to])) => ~IsDigit(input[e.to + 1])

(***************************************************************************)
(* C22.                                                                    *)
(***************************************************************************)
\* C22: no emitted span ends between the last letter of a run of two or
\* more uppercase letters and a digit that follows it.
C22_DigitStaysWithInitialism ==
    \A e \in EmitSet :
        (e.to < Len(input) /\ IsDigit(input[e.to + 1]))
            => ~(\E i \in 1..(e.to - 1) : UpperRun(i, e.to))

(***************************************************************************)
(* C23.                                                                    *)
(***************************************************************************)
\* C23: no emitted span ends between a '-' or a '=' and a digit that
\* follows it.
C23_DigitStaysWithSign ==
    \A e \in EmitSet :
        (e.to < Len(input) /\ IsDigit(input[e.to + 1]))
            => input[e.to] \notin {"-", "="}

(***************************************************************************)
(* C24.                                                                    *)
(***************************************************************************)
\* The sequence s without the runes of the set drop.
Without(s, drop) == SelectSeq(s, LAMBDA r : r \notin drop)

\* C24: for an input without U+0000, the result without its spaces is,
\* up to letter case, the input after the prefix without its '_' and '/'.
C24_NoCharacterLostOrDuplicated ==
    state = "returned" =>
        ToLower(Without(result, {" "})) = ToLower(Without(input, Separators))

\* A result of two or more words whose first came from a merge, whose
\* last was pending at the end of the input, from an input with a '/'.
C24_Witness ==
    /\ state = "returned"
    /\ Len(words) >= 2
    /\ \E k \in Merges : k >= 2
    /\ emits[Len(emits)].by = "eof"
    /\ \E i \in 1..Len(input) : input[i] = "/"

(***************************************************************************)
(* C25.                                                                    *)
(***************************************************************************)
\* An apostrophe stands at i where a word begins (at the start of the input
\* or right after a '_' or a '/') and a letter follows it.
OpeningQuote(i) ==
    /\ 1 <= i /\ i < Len(input)
    /\ input[i] = "'"
    /\ (i = 1 \/ input[i - 1] \in Separators)
    /\ IsLetter(input[i + 1])

\* The word sequence holds a word made from a span that begins at the rune
\* i of the input, and the word begins with an apostrophe.
QuoteKept(i) ==
    \E n \in 1..Len(words) :
        /\ n <= Len(WordSpans)
        /\ WordSpans[n].from = i - 1
        /\ words[n][1] = "'"

SecondRunDone == calls.phase = "alone" /\ Finished(Running)

C27_CallsDoNotInterfere ==
    (SecondRunDone /\ debug = calls.first.debug) =>
        /\ state = calls.first.state
        /\ result = calls.first.result

\* A call has returned two words or more alone, after a call on the same
\* argument whose steps were interleaved with a call on another argument
\* that returned words too.
C27_Witness ==
    /\ SecondRunDone
    /\ debug = calls.first.debug
    /\ state = "returned"
    /\ Len(words) >= 2
    /\ calls.other.raw # raw
    /\ Len(calls.other.words) >= 2
    /\ calls.other.state = "returned"

(***************************************************************************)
(* C28.                                                                    *)
(***************************************************************************)
\* The events Filter has parsed, in the order of their lines.
ParsedEvents ==
    LET js == SelectSeq(consumed, LAMBDA l : l.kind = "json")
    IN  [k \in 1..Len(js) |-> js[k].event]

\* The name t starts with the runes T, e, s, t.
StartsWithTest(t) ==
    Len(t) >= 4 /\ t[1] = "T" /\ t[2] = "e" /\ t[3] = "s" /\ t[4] = "t"

\* C28: Relevant is true of an event that Filter has parsed exactly when
\* its Test starts with "Test" and its Action is "pass" or "fail", and the
\* event Filter is printing is such an event.
C28_RelevantIffTestPassOrFail ==
    /\ \A k \in 1..Len(ParsedEvents) :
          LET e == ParsedEvents[k]
          IN  Relevant(e) <=>
                 (StartsWithTest(e.Test) /\ e.Action \in {"pass", "fail"})
    /\ pc = "string" =>
          (StartsWithTest(event.Test) /\ event.Action \in {"pass", "fail"})

\* Filter has returned after an Example event that failed, for which
\* Relevant was false, and a Test event that passed, for which it was true.
C28_Witness ==
    /\ pc = "returned"
    /\ \E k \in 1..Len(ParsedEvents) :
          LET e == ParsedEvents[k]
          IN  /\ Len(e.Test) > 0 /\ e.Test[1] = "E"
              /\ e.Action = "fail" /\ ~Relevant(e)
    /\ \E k \in 1..Len(ParsedEvents) :
          LET e == ParsedEvents[k]
          IN  StartsWithTest(e.Test) /\ e.Action = "pass" /\ Relevant(e)
    /\ Len(output) = 2

(***************************************************************************)
(* C29.                                                                    *)
(***************************************************************************)
\* The events of the relevant records among the lines ls, in order.
RelevantEvents(ls) ==
    LET rs == SelectSeq(ls, LAMBDA l : l.kind = "json" /\ Relevant(l.event))
    IN  [k \in 1..Len(rs) |-> rs[k].event]

\* The events of the result lines Filter has written, in order.
ResultEvents ==
    LET rs == SelectSeq(output, LAMBDA l : l.kind = "result")
    IN  [k \in 1..Len(rs) |-> rs[k].event]

\* C29: when Filter returns, the result lines it has written are one per
\* relevant record of its input, in the order of the records, and there is
\* no result line for any other line of the input.
C29_OneResultLinePerRelevantRecord ==
    pc = "returned" => ResultEvents = RelevantEvents(consumed \o scanner)

UnparsedLines == SelectSeq(consumed, LAMBDA l : ParseJSON(l).err)

\* C31: when Filter returns after reading a line that cannot be parsed as
\* JSON, the flag it returns is false.
C31_NotOKOnParsingError ==
    (pc = "returned" /\ Len(UnparsedLines) > 0) => allOK = FALSE

(***************************************************************************)
(* C32.                                                                    *)
(***************************************************************************)
\* Line j of the output is a header naming the package pkg.
IsHeaderOf(j, pkg) == output[j].kind = "header" /\ output[j].pkg = pkg

\* C32: every result line of the output comes after a header line naming
\* the package of its record, with no header of another package between
\* that header and the result line.
C32_ResultFollowsOwnHeader ==
    \A i \in 1..Len(output) :
       output[i].kind = "result" =>
          \E j \in 1..(i - 1) :
             /\ IsHeaderOf(j, output[i].event.Package)
             /\ \A k \in (j + 1)..(i - 1) :
                   output[k].kind = "header" =>
                      IsHeaderOf(k, output[i].event.Package)

(***************************************************************************)
(* C33.                                                                    *)
(***************************************************************************)
\* Filter has parsed an event with the Action "fail".
SawFail == \E k \in 1..Len(ParsedEvents) : ParsedEvents[k].Action = "fail"

C34_ErrorAndZeroEventOnInvalidJSON ==
    \A k \in 1..Len(consumed) :
       /\ consumed[k].kind = "invalid" => ParseJSON(consumed[k]).err
       /\ ParseJSON(consumed[k]).err => ParseJSON(consumed[k]).event = NoEvent

\* Filter has returned after handing ParseJSON a line that is not JSON and
\* an object with a field of the wrong type, some fields of which
\* json.Unmarshal had decoded, and has written nothing.
C34_Witness ==
    /\ pc = "returned"
    /\ \E k \in 1..Len(consumed) : consumed[k].kind = "invalid"
    /\ \E k \in 1..Len(consumed) :
          consumed[k].kind = "mistyped" /\ Unmarshal(consumed[k]).event # NoEvent
    /\ output = <<>>

(***************************************************************************)
(* C35.                                                                    *)
(***************************************************************************)
\* The input begins with a function name that ends before index i: letters
\* only, the first of them uppercase, and input[i] the first underscore.
FuncNameEndsAt(i) ==
    /\ i > 1
    /\ i <= Len(input)
    /\ input[i] = "_"
    /\ IsUpper(input[1])
    /\ \A k \in 1..(i - 1) : IsLetter(input[k])

\* C35: when the input begins with a function name made only of letters,
\* the first of them uppercase, that the first underscore follows, the
\* first word of the string Prettify returns is that name as it is written
\* in the input.
C35_FunctionNameVerbatim ==
    \A i \in 1..Len(input) :
       (state = "returned" /\ FuncNameEndsAt(i)) =>
          /\ IsPrefix(SubSeq(input, 1, i - 1), result)
          /\ Len(result) > i - 1 => result[i] = " "

(***************************************************************************)
(* C36.                                                                    *)
(***************************************************************************)
\* The line l is discarded: it does not parse into an event, or its event
\* is not the pass or fail of a test.
Discarded(l) ==
    \/ l.kind # "json"
    \/ ~(StartsWithTest(l.event.Test) /\ l.event.Action \in {"pass", "fail"})

\* The line l leaves the flag alone: it does not parse into an event, or
\* the Action of its event is not "fail".
NotAFailure(l) == l.kind # "json" \/ l.event.Action # "fail"

PreviousPackage(rs, k) == IF k = 1 THEN "" ELSE rs[k - 1].Package

RECURSIVE ExpectedOutput(_, _)
\* What the first k relevant records rs give when a header is written
\* exactly at a record whose Package differs from the previous one, with an
\* empty line before every header but the first: the lines of the output,
\* a result line standing for each record.
ExpectedOutput(rs, k) ==
    IF k = 0 THEN <<>>
    ELSE LET before == ExpectedOutput(rs, k - 1)
             header == IF rs[k].Package # PreviousPackage(rs, k)
                       THEN (IF \E j \in 1..Len(before) : before[j] = "header"
                             THEN <<"blank">> ELSE <<>>)
                            \o <<"header">>
                       ELSE <<>>
         IN  before \o header \o <<"result">>

\* The kinds of the lines of the output.
OutputKinds == [i \in 1..Len(output) |-> output[i].kind]

\* The events Filter has printed or is printing.
PrintedEvents == RelevantEvents(consumed)

\* C37: the output of Filter has a package header exactly before the result
\* line of each relevant record whose Package differs from that of the
\* previous relevant record (from the empty string for the first), the
\* header names that Package, and an empty line stands before every header
\* except the first header written.
C37_HeaderWhenPackageChanges ==
    pc \in {"scan", "returned"} =>
       /\ OutputKinds = ExpectedOutput(PrintedEvents, Len(PrintedEvents))
       /\ \A i \in 1..Len(output) :
             output[i].kind = "header" =>
                \E j \in (i + 1)..Len(output) :
                   /\ output[j].kind = "result"
                   /\ output[j].event.Package = output[i].pkg
                   /\ \A k \in (i + 1)..(j - 1) : output[k].kind # "result"

(***************************************************************************)
(* C38.                                                                    *)
(***************************************************************************)
\* The argument of the call holds no apostrophe and no U+0000.
PlainName == \A i \in 1..Len(raw) : raw[i] # "'" /\ raw[i] # eof

\* C38: for an argument without apostrophe and without U+0000, the string
\* Prettify returns with the scanner that reads with next() and backup() is
\* the string it returns with the scanner that reads with peek().
C38_PeekScannerAgrees ==
    (state = "returned" /\ PlainName) => result = peekPrettify

\* Prettify has returned several words for a plain name in which the
\* default case backtracked out of an initialism and a digit began a word.
C38_Witness ==
    /\ state = "returned"
    /\ PlainName
    /\ Len(words) >= 3
    /\ \E k \in 1..Len(emits) : emits[k].by = "default"
    /\ \E k \in 1..Len(emits) : emits[k].by = "digit"
    /\ result = peekPrettify

(***************************************************************************)
(* C39.                                                                    *)
(***************************************************************************)
\* The argument of the call without one leading "Test", if it has one.
StrippedOnce == IF StartsWithTest(raw) THEN SubSeq(raw, 5, Len(raw)) ELSE raw

\* C39: the runes of the string Prettify returns are, up to letter case and
\* without the spaces, the runes of its argument without '_' and '/' and
\* without one leading "Test": an argument that does not start with "Test"
\* keeps every rune, and of two leading "Test" the second stays, so that
\* "TestTestAa" gives "Test aa".
C39_PrefixStrippedOnce ==
    state = "returned" =>
       /\ input = StrippedOnce
       /\ ToLower(Without(result, {" "}))
             = ToLower(Without(StrippedOnce, Separators))
       /\ raw = TestPrefix \o TestPrefix \o <<"A", "a">>
             => result = <<"T", "e", "s", "t", " ", "a", "a">>

\* Prettify has returned "Test aa" for "TestTestAa".
C39_Witness ==
    /\ state = "returned"
    /\ raw = TestPrefix \o TestPrefix \o <<"A", "a">>
    /\ result = <<"T", "e", "s", "t", " ", "a", "a">>

=============================================================================
